---- MODULE Spec2Model ----
(***************************************************************************)
(* Sardine flock: the per-agent motion model of Fish (undulation, speed    *)
(* modes, heading control, roll, boundary avoidance, flocking, physics)    *)
(* driven by FlockManager (update, pause, hot behavior update, resize).    *)
(*                                                                         *)
(* Numbers are fixed point with three decimals: a length of 1 world unit,  *)
(* a speed of 1 BL/s, an angle of 1 rad, a weight of 1.0 and a time of 1 s *)
(* are all written 1000.  Vectors are triples <<x, y, z>>.                 *)
(***************************************************************************)
EXTENDS Integers, Sequences, FiniteSets, TLC

-----------------------------------------------------------------------------
(* Fixed-point arithmetic                                                  *)

\* the fixed-point unit: 1.0
ONE == 1000

Abs(a) == IF a < 0 THEN -a ELSE a

Sign(a) == IF a > 0 THEN 1 ELSE IF a < 0 THEN -1 ELSE 0

Min(a, b) == IF a < b THEN a ELSE b

Max(a, b) == IF a > b THEN a ELSE b

\* a / b rounded to the nearest integer, symmetric around zero (b > 0)
RDiv(a, b) == IF a >= 0 THEN (2 * a + b) \div (2 * b)
                        ELSE -((2 * (-a) + b) \div (2 * b))

\* product of two fixed-point numbers
Mul(a, b) == RDiv(a * b, ONE)

RECURSIVE SqrtIter(_, _)
SqrtIter(n, x) ==
    LET y == (x + n \div x) \div 2
    IN  IF y >= x THEN x ELSE SqrtIter(n, y)

\* floor of the square root of a natural number
ISqrt(n) == IF n <= 0 THEN 0 ELSE SqrtIter(n, Min(n, 46340))

-----------------------------------------------------------------------------
(* THREE.Vector3                                                           *)

ZeroVec == <<0, 0, 0>>

VAdd(a, b) == <<a[1] + b[1], a[2] + b[2], a[3] + b[3]>>

VSub(a, b) == <<a[1] - b[1], a[2] - b[2], a[3] - b[3]>>

\* multiplyScalar by a fixed-point scalar
VScale(a, s) == <<Mul(a[1], s), Mul(a[2], s), Mul(a[3], s)>>

\* divideScalar by a plain count
VDivN(a, n) == <<RDiv(a[1], n), RDiv(a[2], n), RDiv(a[3], n)>>

Dot(a, b) == a[1] * b[1] + a[2] * b[2] + a[3] * b[3]

MaxAbs(a) == Max(Abs(a[1]), Max(Abs(a[2]), Abs(a[3])))

\* magnification that brings a vector's largest component near 20000, so
\* that its squared length keeps precision and fits the integer width
UpFactor(m) == IF m <= 20 THEN 1000
               ELSE IF m <= 200 THEN 100
               ELSE IF m <= 2000 THEN 10
               ELSE 1

\* reduction applied to vectors whose components exceed 20000
DownFactor(m) == IF m <= 20000 THEN 1 ELSE 10

RescaledBy(a, u, d) == <<RDiv(u * a[1], d), RDiv(u * a[2], d), RDiv(u * a[3], d)>>

Rescaled(a) == RescaledBy(a, UpFactor(MaxAbs(a)), DownFactor(MaxAbs(a)))

\* the length of a from the length l of its rescaled copy
LengthFrom(l, m) == RDiv(l * DownFactor(m), UpFactor(m))

\* sqrt(x * x + y * y + z * z)
Norm(w) == ISqrt(Dot(w, w))

\* Vector3.length()
Length(a) == LengthFrom(Norm(Rescaled(a)), MaxAbs(a))

\* divideScalar(length() || 1): a vector of length 0 is left as it is
DivideByLength(w, l) ==
    IF l = 0 THEN ZeroVec
    ELSE <<RDiv(w[1] * ONE, l), RDiv(w[2] * ONE, l), RDiv(w[3] * ONE, l)>>

NormalizeRescaled(w) == DivideByLength(w, Norm(w))

\* fault variant of Normalize: a zero vector is given the direction +z
NormalizeOrAxis(a) ==
    IF a = ZeroVec THEN <<0, 0, ONE>> ELSE NormalizeRescaled(Rescaled(a))

\* Vector3.normalize(): the zero vector stays zero
Normalize(a) == NormalizeRescaled(Rescaled(a))

\* Vector3.lerp(b, t): a + (b - a) * t
Lerp(a, b, t) == VAdd(a, VScale(VSub(b, a), t))

\* Vector3.distanceTo()
Distance(a, b) == Length(VSub(a, b))

\* pi and 2 pi
PI == 3142

TWO_PI == 6283

\* Math.acos on [-1, 1] (Abramowitz-Stegun 4.4.45, error below 1e-4 rad)
AcosPos(c) ==
    LET s == RDiv(ISqrt((ONE - c) * ONE * 100), 10)
        p == 1571 + Mul(c, -212 + Mul(c, 74 - Mul(19, c)))
    IN  Mul(s, p)

Acos(c) == IF c >= 0 THEN AcosPos(c) ELSE PI - AcosPos(-c)

\* Vector3.angleTo(): acos(clamp(dot / sqrt(lengthSq * lengthSq), -1, 1)),
\* pi/2 when either vector is zero
AngleBetween(a, b, la, lb) ==
    IF la = 0 \/ lb = 0 THEN 1571
    ELSE Acos(Max(-ONE, Min(ONE, RDiv(Dot(a, b) * ONE, la * lb))))

AngleTo(a, b) == AngleBetween(a, b, Length(a), Length(b))

\* Math.atan on [-1, 1]: q (pi/4 + 0.273 (1 - |q|)), error below 4e-3 rad
AtanUnit(q) == Mul(q, 785 + Mul(273, ONE - Abs(q)))

\* Math.atan2(x, z): the angle of (x, z) measured from the +z axis
Atan2(x, z) ==
    IF x = 0 /\ z = 0 THEN 0
    ELSE IF Abs(z) >= Abs(x)
         THEN LET a == AtanUnit(RDiv(x * ONE, Abs(z)))
              IN  IF z > 0 THEN a ELSE IF x >= 0 THEN PI - a ELSE -PI - a
         ELSE LET a == AtanUnit(RDiv(z * ONE, Abs(x)))
              IN  IF x > 0 THEN 1571 - a ELSE -1571 + a

\* Math.sin on [0, 2 pi] (Bhaskara's approximation, error below 2e-3)
SinPos(x) ==
    LET q == x * (PI - x)
    IN  RDiv(160 * q, RDiv(5 * PI * PI - 4 * q, 100))

Sin(x) == IF x <= PI THEN SinPos(Max(0, x)) ELSE -SinPos(Min(PI, x - PI))

-----------------------------------------------------------------------------
(* Configuration                                                           *)

\* SpeedMode enum values (body lengths per second)
RESTING == 500

CRUISING == 1500

ACTIVE == 2500

BURST == 4000

\* bounds handed to the FlockManager by the scene
BoundsMin == <<-100000, -40000, -100000>>

BoundsMax == <<100000, 40000, 100000>>

\* the behavior the scene constructs the flock with
DefaultBehavior ==
    [ bodyLength          |-> 3000,
      maxTurnRate         |-> 1570,
      maxRollAngle        |-> 520,
      rollSpeed           |-> 3000,
      undulationFrequency |-> 3000,
      undulationAmplitude |-> 200,
      accelerationRate    |-> 2500,
      neighborRadius      |-> 25000,
      separationRadius    |-> 8000,
      cohesionStrength    |-> 400,
      separationStrength  |-> 800,
      alignmentStrength   |-> 600,
      individualWeight    |-> 600,
      socialWeight        |-> 400 ]

\* the longest step the frame driver passes on: 1/30 s, in ms
MaxDeltaTime == 33

-----------------------------------------------------------------------------
(* Fish: construction                                                      *)

\* fault variant of GenerateSizeCharacteristics: the size is not clamped
GenerateSizeUnclamped(baseBodyLength, sizeVariation) ==
    LET scaleFactor == ONE + sizeVariation
        multiplier  == Max(700, Min(1300, 2000 - scaleFactor))
    IN  [ scaleFactor        |-> scaleFactor,
          bodyLength         |-> Mul(baseBodyLength, scaleFactor),
          speedMultiplier    |-> multiplier,
          agilityMultiplier  |-> multiplier,
          turnRateMultiplier |-> multiplier ]

\* generateSizeCharacteristics, given the normal draw sizeVariation
GenerateSizeCharacteristics(baseBodyLength, sizeVariation) ==
    LET scaleFactor == Max(600, Min(1400, ONE + sizeVariation))
        multiplier  == Max(700, Min(1300, 2000 - scaleFactor))
    IN  [ scaleFactor        |-> scaleFactor,
          bodyLength         |-> Mul(baseBodyLength, scaleFactor),
          speedMultiplier    |-> multiplier,
          agilityMultiplier  |-> multiplier,
          turnRateMultiplier |-> multiplier ]

\* fault variant of ProjectVelocity: the body length is left out
ProjectVelocityNoLength(heading, currentSpeed, bodyLength) ==
    VScale(heading, currentSpeed)

\* updateVelocityFromHeading: heading * (currentSpeed * bodyLength)
ProjectVelocity(heading, currentSpeed, bodyLength) ==
    VScale(heading, Mul(currentSpeed, bodyLength))

\* new Fish(position, behavior), constructed at time t; sizeVariation, phase
\* and yaw are the constructor's random draws
NewFish(position, b, t, sizeVariation, phase, yaw) ==
    LET size == GenerateSizeCharacteristics(b.bodyLength, sizeVariation)
        spd  == Mul(CRUISING, size.speedMultiplier)
    IN  [ isActive |-> TRUE,
          size     |-> size,
          physics  |->
            [ position |-> position,
              rotation |-> <<0, yaw, 0>>,
              velocity |-> ProjectVelocity(<<0, 0, ONE>>, spd, size.bodyLength) ],
          movement |->
            [ undulation |->
                [ frequency       |-> Mul(b.undulationFrequency, size.agilityMultiplier),
                  amplitude       |-> b.undulationAmplitude,
                  phase           |-> phase,
                  speedMultiplier |-> ONE ],
              roll |->
                [ currentAngle |-> 0,
                  targetAngle  |-> 0,
                  rollSpeed    |-> Mul(b.rollSpeed, size.agilityMultiplier),
                  maxRollAngle |-> b.maxRollAngle ],
              speed |->
                [ currentMode    |-> CRUISING,
                  targetSpeed    |-> spd,
                  currentSpeed   |-> spd,
                  acceleration   |-> Mul(b.accelerationRate, size.agilityMultiplier),
                  lastModeChange |-> t ],
              direction |->
                [ currentHeading      |-> <<0, 0, ONE>>,
                  targetHeading       |-> <<0, 0, ONE>>,
                  turnRate            |-> Mul(b.maxTurnRate, size.turnRateMultiplier),
                  lastDirectionChange |-> t,
                  isChangingDirection |-> FALSE ] ] ]

-----------------------------------------------------------------------------
(* Fish: the per-tick sub-systems.  dt is in ms, now in ms.                *)

\* fault variant of WrapPhase: the phase is never wrapped
WrapPhaseNever(phase) == phase

\* "if (phase > 2 pi) phase -= 2 pi"
WrapPhase(phase) == IF phase > TWO_PI THEN phase - TWO_PI ELSE phase

\* how far updateUndulation advances the phase in one tick
PhaseAdvance(f, dt) ==
    LET speedRatio == RDiv(f.movement.speed.currentSpeed * ONE, BURST)
        sm         == ONE + RDiv(speedRatio * 3, 2)
        effective  == Mul(f.movement.undulation.frequency, sm)
    IN  Mul(Mul(effective, TWO_PI), dt)

\* P1.1 updateUndulation
UpdateUndulation(f, dt) ==
    LET speedRatio == RDiv(f.movement.speed.currentSpeed * ONE, BURST)
        sm         == ONE + RDiv(speedRatio * 3, 2)
    IN  [f EXCEPT !.movement.undulation.speedMultiplier = sm,
                  !.movement.undulation.phase =
                      WrapPhase(f.movement.undulation.phase + PhaseAdvance(f, dt))]

\* changeSpeedMode: weighted pick by the draw u in [0, 1), then the target
\* speed from the mode, the draw j in [0, 1) and the size's speedMultiplier
PickMode(u) ==
    IF u - 200 <= 0 THEN RESTING
    ELSE IF u - 200 - 500 <= 0 THEN CRUISING
    ELSE IF u - 200 - 500 - 250 <= 0 THEN ACTIVE
    ELSE BURST

ChangeSpeedMode(f, u, j) ==
    LET mode      == PickMode(u)
        baseSpeed == mode + Mul(j - 500, 300)
    IN  [f EXCEPT !.movement.speed.currentMode = mode,
                  !.movement.speed.targetSpeed = Mul(baseSpeed, f.size.speedMultiplier)]

\* "if (|diff| > 0.01) current += sign(diff) * min(|diff|, maxChange)"
StepToward(current, target, maxChange) ==
    LET diff == target - current
    IN  IF Abs(diff) > 10
        THEN current + Sign(diff) * Min(Abs(diff), maxChange)
        ELSE current

\* fault variant of Accelerate: the speed jumps to its target
AccelerateSnap(f, dt) ==
    [f EXCEPT !.movement.speed.currentSpeed = f.movement.speed.targetSpeed]

\* the smooth speed transition of updateSpeedVariation
Accelerate(f, dt) ==
    [f EXCEPT !.movement.speed.currentSpeed =
        StepToward(f.movement.speed.currentSpeed, f.movement.speed.targetSpeed,
                   Mul(f.movement.speed.acceleration, dt))]

\* fault variant of UpdateSpeedVariation: lastModeChange is not written
UpdateSpeedVariationUnstamped(f, dt, now, r) ==
    Accelerate(IF now - f.movement.speed.lastModeChange > 3000 + 5 * r.modeTimer
               THEN ChangeSpeedMode(f, r.modePick, r.speedJitter)
               ELSE f,
               dt)

\* P1.2 updateSpeedVariation; r.modeTimer, r.modePick, r.speedJitter are the
\* Math.random() draws in [0, 1)
UpdateSpeedVariation(f, dt, now, r) ==
    Accelerate(IF now - f.movement.speed.lastModeChange > 3000 + 5 * r.modeTimer
               THEN [ChangeSpeedMode(f, r.modePick, r.speedJitter)
                        EXCEPT !.movement.speed.lastModeChange = now]
               ELSE f,
               dt)

\* initiateDirectionChange: the target heading is the horizontal direction at
\* yaw atan2(x, z) + turnAngle; turn = <<cos, sin>> of turnAngle
Rotated(sa, ca, turn) ==
    << Mul(sa, turn[1]) + Mul(ca, turn[2]), 0, Mul(ca, turn[1]) - Mul(sa, turn[2]) >>

\* hz is the horizontal direction of the heading: its x and z are the sine
\* and cosine of atan2(x, z), and atan2(0, 0) = 0
TurnedFrom(hz, turn) ==
    IF hz = ZeroVec THEN Rotated(0, ONE, turn) ELSE Rotated(hz[1], hz[3], turn)

InitiateDirectionChange(f, turn) ==
    [f EXCEPT !.movement.direction.targetHeading =
                  Normalize(TurnedFrom(
                      Normalize(<< f.movement.direction.currentHeading[1], 0,
                                   f.movement.direction.currentHeading[3] >>), turn)),
              !.movement.direction.isChangingDirection = TRUE]

\* updateRollForTurn: bank into the turn
RollTargetForTurn(current, target, maxRollAngle) ==
    LET crossY        == current[3] * target[1] - current[1] * target[3]
        turnDirection == Sign(crossY)
        turnAngle     == AngleTo(current, target)
        rollIntensity == Min(RDiv(turnAngle * ONE, RDiv(PI, 4)), ONE)
    IN  -turnDirection * Mul(rollIntensity, maxRollAngle)

\* fault variant of HeadingTo: the turn also banks the fish at once
HeadingToBanked(f, heading) ==
    [f EXCEPT !.movement.direction.currentHeading = heading,
              !.movement.roll.targetAngle =
                  RollTargetForTurn(heading, f.movement.direction.targetHeading,
                                    f.movement.roll.maxRollAngle),
              !.movement.roll.currentAngle =
                  RollTargetForTurn(heading, f.movement.direction.targetHeading,
                                    f.movement.roll.maxRollAngle)]

\* the turning branch of updateDirectionChanges
\* the fish turned to heading, banking toward its target
HeadingTo(f, heading) ==
    [f EXCEPT !.movement.direction.currentHeading = heading,
              !.movement.roll.targetAngle =
                  RollTargetForTurn(heading, f.movement.direction.targetHeading,
                                    f.movement.roll.maxRollAngle)]

\* fault variant of TurnBy: a completed turn leaves the bank target as it is
TurnByBanked(f, angleDifference, maxAngleChange) ==
    IF angleDifference > 50
    THEN HeadingTo(f, Normalize(Lerp(f.movement.direction.currentHeading,
                                     f.movement.direction.targetHeading,
                                     RDiv(Min(angleDifference, maxAngleChange) * ONE,
                                          angleDifference))))
    ELSE [f EXCEPT !.movement.direction.currentHeading =
                       f.movement.direction.targetHeading,
                   !.movement.direction.isChangingDirection = FALSE]

\* the turn of one tick, given the angle left and the angle the rate allows
TurnBy(f, angleDifference, maxAngleChange) ==
    IF angleDifference > 50
    THEN HeadingTo(f, Normalize(Lerp(f.movement.direction.currentHeading,
                                     f.movement.direction.targetHeading,
                                     RDiv(Min(angleDifference, maxAngleChange) * ONE,
                                          angleDifference))))
    ELSE [f EXCEPT !.movement.direction.currentHeading =
                       f.movement.direction.targetHeading,
                   !.movement.direction.isChangingDirection = FALSE,
                   !.movement.roll.targetAngle = 0]

\* fault variant of TurnStep: the turn rate is not applied to the heading
TurnStepHeld(f, dt) ==
    IF f.movement.direction.isChangingDirection
    THEN TurnBy(f,
                AngleTo(f.movement.direction.currentHeading,
                        f.movement.direction.targetHeading),
                0)
    ELSE f

\* the turning branch of updateDirectionChanges
TurnStep(f, dt) ==
    IF f.movement.direction.isChangingDirection
    THEN TurnBy(f,
                AngleTo(f.movement.direction.currentHeading,
                        f.movement.direction.targetHeading),
                Mul(f.movement.direction.turnRate, dt))
    ELSE f

\* fault variant of UpdateDirectionChanges: the timer does not test the flag
UpdateDirectionChangesAlways(f, dt, now, r) ==
    TurnStep(IF now - f.movement.direction.lastDirectionChange
                    > 2000 + 4 * r.turnTimer
             THEN [InitiateDirectionChange(f, r.turn)
                      EXCEPT !.movement.direction.lastDirectionChange = now]
             ELSE f,
             dt)

\* P1.3 updateDirectionChanges; r.turnTimer and r.turn are the random draws
UpdateDirectionChanges(f, dt, now, r) ==
    TurnStep(IF /\ ~f.movement.direction.isChangingDirection
                /\ now - f.movement.direction.lastDirectionChange
                       > 2000 + 4 * r.turnTimer
             THEN [InitiateDirectionChange(f, r.turn)
                      EXCEPT !.movement.direction.lastDirectionChange = now]
             ELSE f,
             dt)

\* fault variant of UpdateRoll: the roll jumps to its target
UpdateRollSnap(f, dt) ==
    LET roll == f.movement.roll
    IN  [f EXCEPT !.movement.roll.currentAngle =
            Max(-roll.maxRollAngle, Min(roll.maxRollAngle, roll.targetAngle))]

\* P1.4 updateRoll
UpdateRoll(f, dt) ==
    LET roll          == f.movement.roll
        maxRollChange == Mul(roll.rollSpeed, dt)
        moved         == StepToward(roll.currentAngle, roll.targetAngle, maxRollChange)
    IN  [f EXCEPT !.movement.roll.currentAngle =
            Max(-roll.maxRollAngle, Min(roll.maxRollAngle, moved))]

\* one axis of the avoidance force: push away from the low and the high face
AxisForce(p, lo, hi, avoidanceDistance) ==
    (IF p - lo < avoidanceDistance
     THEN 2 * Max(0, RDiv((avoidanceDistance - (p - lo)) * ONE, avoidanceDistance))
     ELSE 0)
    -
    (IF hi - p < avoidanceDistance
     THEN 2 * Max(0, RDiv((avoidanceDistance - (hi - p)) * ONE, avoidanceDistance))
     ELSE 0)

\* one axis of the urgency test
AxisUrgent(p, lo, hi, avoidanceDistance, urgentDistance) ==
    \/ p - lo < avoidanceDistance /\ p - lo < urgentDistance
    \/ hi - p < avoidanceDistance /\ hi - p < urgentDistance

AvoidanceForce(f, bmin, bmax) ==
    LET pos == f.physics.position
        ad  == f.size.bodyLength * 5
    IN  << AxisForce(pos[1], bmin[1], bmax[1], ad),
           AxisForce(pos[2], bmin[2], bmax[2], ad),
           AxisForce(pos[3], bmin[3], bmax[3], ad) >>

UrgentAvoidance(f, bmin, bmax) ==
    LET pos == f.physics.position
        ad  == f.size.bodyLength * 5
        ud  == f.size.bodyLength * 2
    IN  \/ AxisUrgent(pos[1], bmin[1], bmax[1], ad, ud)
        \/ AxisUrgent(pos[2], bmin[2], bmax[2], ad, ud)
        \/ AxisUrgent(pos[3], bmin[3], bmax[3], ad, ud)

\* fault variant of HardClamp: the position is left where it is
HardClampOff(pos, bmin, bmax) == pos

\* hard boundary enforcement: each axis into [min + 0.5, max - 0.5]
HardClamp(pos, bmin, bmax) ==
    << Max(bmin[1] + 500, Min(bmax[1] - 500, pos[1])),
       Max(bmin[2] + 500, Min(bmax[2] - 500, pos[2])),
       Max(bmin[3] + 500, Min(bmax[3] - 500, pos[3])) >>

\* fault variant of AvoidanceHeading: the blend is not normalized
AvoidanceHeadingRaw(currentHeading, force, urgent) ==
    LET w == IF urgent THEN 800 ELSE 300
    IN  VAdd(VScale(currentHeading, ONE - w), VScale(Normalize(force), w))

\* the heading blended with the avoidance direction, weight 0.8 when urgent
\* and 0.3 otherwise
AvoidanceHeading(currentHeading, force, urgent) ==
    LET w == IF urgent THEN 800 ELSE 300
    IN  Normalize(VAdd(VScale(currentHeading, ONE - w), VScale(Normalize(force), w)))

\* updateBoundaryAvoidance
\* the avoidance branch: applied when the avoidance force is not zero
Avoid(f, b, force, urgent) ==
    IF Length(force) > 0
    THEN [f EXCEPT
            !.movement.direction.targetHeading =
                AvoidanceHeading(f.movement.direction.currentHeading, force, urgent),
            !.movement.direction.isChangingDirection = TRUE,
            !.movement.direction.turnRate =
                IF urgent
                THEN RDiv(Mul(b.maxTurnRate, f.size.turnRateMultiplier) * 3, 2)
                ELSE @]
    ELSE f

UpdateBoundaryAvoidance(f, b, bmin, bmax) ==
    [Avoid(f, b, AvoidanceForce(f, bmin, bmax), UrgentAvoidance(f, bmin, bmax))
        EXCEPT !.physics.position = HardClamp(f.physics.position, bmin, bmax)]

-----------------------------------------------------------------------------
(* Fish: flocking.  fs is the list handed to update(), i the fish's index.  *)

RECURSIVE VSum(_)
VSum(vs) == IF vs = <<>> THEN ZeroVec ELSE VAdd(Head(vs), VSum(Tail(vs)))

Indices(n) == [k \in 1..n |-> k]

\* fault variant of GetNearbyNeighbors: the fish itself is not skipped
GetNearbyNeighborsWithSelf(fs, i, b) ==
    SelectSeq(Indices(Len(fs)),
              LAMBDA j : Distance(fs[i].physics.position, fs[j].physics.position)
                             <= b.neighborRadius)

\* F4 getNearbyNeighbors: the indices of the other fish within neighborRadius
GetNearbyNeighbors(fs, i, b) ==
    SelectSeq(Indices(Len(fs)),
              LAMBDA j : /\ j # i
                         /\ Distance(fs[i].physics.position, fs[j].physics.position)
                                <= b.neighborRadius)

\* F1 calculateCohesion
CalculateCohesion(fs, i, nb) ==
    IF nb = <<>> THEN ZeroVec
    ELSE LET centerOfMass ==
                 VDivN(VSum([k \in 1..Len(nb) |-> fs[nb[k]].physics.position]), Len(nb))
         IN  Normalize(VSub(centerOfMass, fs[i].physics.position))

\* the contribution of neighbor j to the separation force
AwayFrom(fs, i, j, b) ==
    LET distance == Distance(fs[i].physics.position, fs[j].physics.position)
        strength == RDiv((b.separationRadius - distance) * ONE, b.separationRadius)
    IN  VScale(Normalize(VSub(fs[i].physics.position, fs[j].physics.position)), strength)

\* F2 calculateSeparation
TooClose(distance, b) == distance < b.separationRadius /\ distance > 0

SeparationFrom(fs, i, close, b) ==
    IF close = <<>> THEN ZeroVec
    ELSE Normalize(VDivN(VSum([k \in 1..Len(close) |-> AwayFrom(fs, i, close[k], b)]),
                         Len(close)))

CalculateSeparation(fs, i, nb, b) ==
    SeparationFrom(fs, i,
                   SelectSeq(nb, LAMBDA j : TooClose(Distance(fs[i].physics.position,
                                                              fs[j].physics.position), b)),
                   b)

\* F3 calculateAlignment
CalculateAlignment(fs, i, nb) ==
    IF nb = <<>> THEN ZeroVec
    ELSE Normalize(VDivN(VSum([k \in 1..Len(nb) |-> fs[nb[k]].physics.velocity]),
                         Len(nb)))

\* the combined social force of updateFlockingBehavior
SocialForce(fs, i, nb, b) ==
    VAdd(VAdd(VScale(CalculateCohesion(fs, i, nb), b.cohesionStrength),
              VScale(CalculateSeparation(fs, i, nb, b), b.separationStrength)),
         VScale(CalculateAlignment(fs, i, nb), b.alignmentStrength))

\* F5 applySocialInfluence.  socialForce is normalized and then scaled by
\* socialWeight in place, so the final strength test reads the weighted vector.
Influence(f, weighted, dt, b) ==
    [f EXCEPT
        !.movement.direction.targetHeading =
            Normalize(Lerp(@,
                           Normalize(VAdd(VScale(f.movement.direction.currentHeading,
                                                 b.individualWeight),
                                          weighted)),
                           Mul(300, dt))),
        !.movement.direction.isChangingDirection =
            IF Length(weighted) > 500 THEN TRUE ELSE @]

ApplySocialInfluence(f, socialForce, dt, b) ==
    IF Length(socialForce) = 0 THEN f
    ELSE Influence(f, VScale(Normalize(socialForce), b.socialWeight), dt, b)

\* updateFlockingBehavior
FlockWith(fs, i, nb, dt, b) ==
    IF nb = <<>> THEN fs[i]
    ELSE ApplySocialInfluence(fs[i], SocialForce(fs, i, nb, b), dt, b)

UpdateFlockingBehavior(fs, i, dt, b) ==
    FlockWith(fs, i, GetNearbyNeighbors(fs, i, b), dt, b)

-----------------------------------------------------------------------------
(* Fish: physics and the whole update                                      *)

\* updateRotationFromMovement: yaw from the heading plus the undulation
\* effect, roll from the roll system
RotationFromMovement(f) ==
    LET h == f.movement.direction.currentHeading
        u == f.movement.undulation
    IN  << f.physics.rotation[1],
           Atan2(h[1], h[3]) + Mul(Mul(Sin(u.phase), u.amplitude), 300),
           f.movement.roll.currentAngle >>

\* updateVelocityFromHeading applied to the fish
WithVelocity(f) ==
    [f EXCEPT !.physics.velocity =
        ProjectVelocity(f.movement.direction.currentHeading,
                        f.movement.speed.currentSpeed, f.size.bodyLength)]

\* position += velocity * deltaTime
Integrate(f, dt) ==
    [f EXCEPT !.physics.position = VAdd(@, VScale(f.physics.velocity, dt))]

\* updateRotationFromMovement applied to the fish
WithRotation(f) == [f EXCEPT !.physics.rotation = RotationFromMovement(f)]

\* updatePhysics
UpdatePhysics(f, dt) == WithRotation(Integrate(WithVelocity(f), dt))

\* "if (neighbors && neighbors.length > 0) updateFlockingBehavior(...)"
Flocked(fs, i, dt, b) ==
    IF Len(fs) > 0 THEN UpdateFlockingBehavior(fs, i, dt, b) ELSE fs[i]

\* Fish.update(deltaTime, neighbors, bounds) of fish i of the list fs, with
\* the random draws r of this call
FishUpdate(fs, i, dt, now, b, bmin, bmax, r) ==
    LET f1 == UpdateUndulation(fs[i], dt)
        f2 == UpdateSpeedVariation(f1, dt, now, r)
        f3 == UpdateDirectionChanges(f2, dt, now, r)
        f4 == UpdateRoll(f3, dt)
        f5 == UpdateBoundaryAvoidance(f4, b, bmin, bmax)
        f6 == Flocked([fs EXCEPT ![i] = f5], i, dt, b)
    IN  UpdatePhysics(f6, dt)

-----------------------------------------------------------------------------
(* FlockManager                                                            *)

VARIABLES
    fish,        \* FlockManager.fish: the list of Fish, inactive ones included
    behavior,    \* config.behavior, the one object every fish.behavior refers to
    fishCount,   \* config.fishCount
    isPaused,    \* FlockManager.isPaused
    now,         \* performance.now(), in ms
    deltaTime,   \* the deltaTime of the latest update() call, in ms
    frames,      \* the number of update() calls so far
    partitionSize, \* config.partitionSize, in thousandths of a unit
    spatialGrid, \* FlockManager.spatialGrid: cell key -> list of fish indices
    lastTime     \* SardinesScene.lastTime, in ms

vars == <<fish, behavior, fishCount, isPaused, now, deltaTime, frames,
          partitionSize, spatialGrid, lastTime>>

\* largest population
MaxFish == 2

\* largest number of update() calls of the flock, and the latest time of one
MaxFrames == 2

MaxTime == 4100

\* the same two limits for the single fish followed over a long swim
MaxSwimFrames == 36

MaxSwimTime == 5200

\* time between two animation frames, in ms: a regular frame or a long stall
Elapsed == {16, 4000}

SwimElapsed == {33, 4000}

\* the random draws of one construction: the three position draws in [0, 1),
\* the normal draw of the size, the undulation phase and the yaw
FlockSpawnDraws ==
    { [rx |-> 500, ry |-> 500, rz |-> 999, sizeVariation |-> 0,
       phase |-> 0, yaw |-> 0],
      [rx |-> 505, ry |-> 500, rz |-> 900, sizeVariation |-> -450,
       phase |-> 3000, yaw |-> 1000] }

\* the draws of a fish that updateConfig adds to a running flock
GrowSpawnDraws == {d \in FlockSpawnDraws : d.yaw = 1000}

SwimSpawnDraws ==
    { [rx |-> 500, ry |-> 500, rz |-> 500, sizeVariation |-> 0,
       phase |-> 5311, yaw |-> 0],
      [rx |-> 500, ry |-> 500, rz |-> 999, sizeVariation |-> 0,
       phase |-> 0, yaw |-> 2000],
      [rx |-> 30, ry |-> 500, rz |-> 500, sizeVariation |-> -450,
       phase |-> 6100, yaw |-> 1000],
      [rx |-> 500, ry |-> 1, rz |-> 500, sizeVariation |-> 450,
       phase |-> 3000, yaw |-> 4000] }

\* bounds.min + Math.random() * (bounds.max - bounds.min), per axis
SpawnPosition(d) ==
    << BoundsMin[1] + Mul(d.rx, BoundsMax[1] - BoundsMin[1]),
       BoundsMin[2] + Mul(d.ry, BoundsMax[2] - BoundsMin[2]),
       BoundsMin[3] + Mul(d.rz, BoundsMax[3] - BoundsMin[3]) >>

\* a fish constructed at time t from the draws d
Spawn(d, b, t) == NewFish(SpawnPosition(d), b, t, d.sizeVariation, d.phase, d.yaw)

\* the fish list grown to newCount by pushing newly constructed fish
RECURSIVE Grown(_, _, _, _, _)
Grown(fs, newCount, b, t, spawns) ==
    IF Len(fs) >= newCount THEN {fs}
    ELSE UNION { Grown(Append(fs, Spawn(d, b, t)), newCount, b, t, spawns)
                 : d \in spawns }

\* the Math.random() draws of one Fish.update call: modeTimer and turnTimer
\* in [0, 1) for the two timers, modePick and speedJitter for changeSpeedMode,
\* turn = <<cos, sin>> of the turn angle in [-pi/2, pi/2]
Draws(timers, modes, turns) ==
    { [modeTimer |-> mt, modePick |-> m[1], speedJitter |-> m[2],
       turnTimer |-> tt, turn |-> tn]
      : mt \in timers, m \in modes, tt \in timers, tn \in turns }

FlockDraws == Draws({0}, {<<990, 999>>}, {<<0, -1000>>})

SwimDraws == Draws({0},
                   {<<100, 0>>, <<600, 500>>, <<900, 500>>, <<990, 999>>},
                   {<<0, -1000>>, <<800, 600>>})

\* the draws that can make a difference to fish f at time t: when a timer
\* cannot expire whatever is drawn, its draws are never read
DrawsFor(draws, f, t) ==
    LET modeMay == t - f.movement.speed.lastModeChange > 3000
        turnMay == t - f.movement.direction.lastDirectionChange > 2000
        r0      == CHOOSE r \in draws : TRUE
    IN  { r \in draws :
            /\ modeMay \/ (/\ r.modeTimer = r0.modeTimer
                           /\ r.modePick = r0.modePick
                           /\ r.speedJitter = r0.speedJitter)
            /\ turnMay \/ (r.turnTimer = r0.turnTimer /\ r.turn = r0.turn) }

\* fault variant of UpdateFrom: every fish reads the list as it was before
\* the tick, as with a second buffer
UpdateFromSnapshot(fs, i, dt, t, b, draws) ==
    { [k \in 1..Len(fs) |->
          IF k >= i /\ fs[k].isActive
          THEN FishUpdate(fs, k, dt, t, b, BoundsMin, BoundsMax, rs[k])
          ELSE fs[k]]
      : rs \in [1..Len(fs) -> draws] }

\* fish.forEach of update(): fish i, i+1, ... are updated in order, each one
\* reading the list as the earlier updates left it; inactive fish are skipped
RECURSIVE UpdateFrom(_, _, _, _, _, _)
UpdateFrom(fs, i, dt, t, b, draws) ==
    IF i > Len(fs) THEN {fs}
    ELSE IF ~fs[i].isActive THEN UpdateFrom(fs, i + 1, dt, t, b, draws)
    ELSE UNION { UpdateFrom([fs EXCEPT ![i] =
                                FishUpdate(fs, i, dt, t, b, BoundsMin, BoundsMax, r)],
                            i + 1, dt, t, b, draws)
                 : r \in DrawsFor(draws, fs[i], t) }

\* fault variant of UpdatedLists: update() without its pause test
UpdatedListsUnpaused(fs, paused, dt, t, b, draws) ==
    UpdateFrom(fs, 1, dt, t, b, draws)

\* FlockManager.update(deltaTime): the lists it can leave behind
UpdatedLists(fs, paused, dt, t, b, draws) ==
    IF paused THEN {fs} ELSE UpdateFrom(fs, 1, dt, t, b, draws)

\* the cell of a position: floor(position / partitionSize) per axis
GridKey(p, ps) == <<p[1] \div ps, p[2] \div ps, p[3] \div ps>>

\* new Map()
EmptyGrid == [key \in {} |-> <<>>]

\* updateSpatialGrid: the map is cleared and every active fish is pushed, in
\* list order, to the list of its cell
UpdateSpatialGrid(fs, ps) ==
    [key \in {GridKey(fs[k].physics.position, ps) :
                 k \in {j \in 1..Len(fs) : fs[j].isActive}} |->
        SelectSeq(Indices(Len(fs)),
                  LAMBDA k : /\ fs[k].isActive
                             /\ GridKey(fs[k].physics.position, ps) = key)]

\* the grid after update(): rebuilt from the positions the call found
GridAfterUpdate(grid, fs, paused, ps) ==
    IF paused THEN grid ELSE UpdateSpatialGrid(fs, ps)

\* config.partitionSize as the scene sets it
PartitionSize == 80000

Init ==
    /\ behavior = DefaultBehavior
    /\ fishCount \in 1..MaxFish
    /\ fish \in Grown(<<>>, fishCount, behavior, 0, FlockSpawnDraws)
    /\ isPaused = FALSE
    /\ now = 0
    /\ deltaTime = 0
    /\ frames = 0
    /\ partitionSize = PartitionSize
    /\ spatialGrid = EmptyGrid
    /\ lastTime = 0

\* fault variant of ClampedDelta: the elapsed time is passed on as it is
ClampedDeltaOff(gap) == gap

\* Math.min((currentTime - this.lastTime) / 1000, 1/30), in ms
ClampedDelta(gap) == Min(gap, MaxDeltaTime)

\* one animation frame: SardinesScene.update clamps the elapsed time to 1/30 s
\* and calls FlockManager.update
Frame(elapsed, draws, maxFrames, maxTime) ==
    \E el \in elapsed :
        /\ frames < maxFrames
        /\ now + el <= maxTime
        /\ now' = now + el
        /\ deltaTime' = ClampedDelta(now' - lastTime)
        /\ lastTime' = now'
        /\ frames' = frames + 1
        /\ fish' \in UpdatedLists(fish, isPaused, deltaTime', now', behavior, draws)
        /\ spatialGrid' = GridAfterUpdate(spatialGrid, fish, isPaused, partitionSize)
        /\ UNCHANGED <<behavior, fishCount, isPaused, partitionSize>>

Update == Frame(Elapsed, FlockDraws, MaxFrames, MaxTime)

\* setPaused(paused)
SetPaused ==
    \E paused \in BOOLEAN :
        /\ isPaused' = paused
        /\ UNCHANGED <<fish, behavior, fishCount, now, deltaTime, frames,
                       partitionSize, spatialGrid, lastTime>>

\* a partial FishBehavior as the sidebar sliders send it
BehaviorEdit ==
    [ accelerationRate    |-> 5000,
      rollSpeed           |-> 6000,
      maxRollAngle        |-> 1000,
      undulationFrequency |-> 6000,
      maxTurnRate         |-> 3000,
      neighborRadius      |-> 10000,
      socialWeight        |-> 700 ]

\* Object.assign(target, source)
Assign(target, source) ==
    [k \in DOMAIN target |-> IF k \in DOMAIN source THEN source[k] ELSE target[k]]

\* fault variant of BehaviorAssigned: every fish is constructed anew at its
\* position
BehaviorAssignedRebuilt(fs, b, t) ==
    [k \in 1..Len(fs) |-> NewFish(fs[k].physics.position, b, t, 0, 0, 0)]

\* the fish after updateBehavior: Object.assign writes to fish.behavior, the
\* shared behavior object, and to no field of the fish itself
BehaviorAssigned(fs, b, t) == fs

\* updateBehavior(newBehavior): assigns into every fish's behavior, which is
\* the shared config.behavior object; nothing to assign into without fish
UpdateBehaviorWith(newBehavior) ==
    /\ behavior' = IF Len(fish) = 0 THEN behavior ELSE Assign(behavior, newBehavior)
    /\ behavior' # behavior
    /\ fish' = BehaviorAssigned(fish, behavior', now)
    /\ UNCHANGED <<fishCount, isPaused, now, deltaTime, frames,
                   partitionSize, spatialGrid, lastTime>>

UpdateBehavior == UpdateBehaviorWith(BehaviorEdit)

\* fault variant of Deactivated: the fish beyond newCount are cut off the list
DeactivatedSpliced(fs, newCount) == SubSeq(fs, 1, newCount)

\* the shrinking branch of updateConfig: fish newCount.. are marked inactive
Deactivated(fs, newCount) ==
    [k \in 1..Len(fs) |-> IF k > newCount THEN [fs[k] EXCEPT !.isActive = FALSE]
                          ELSE fs[k]]

\* updateConfig({fishCount: newCount})
UpdateConfig ==
    \E newCount \in 1..MaxFish :
        /\ newCount # fishCount
        /\ LET oldCount == Len(fish)
           IN  IF newCount > oldCount
               THEN fish' \in Grown(fish, newCount, behavior, now, GrowSpawnDraws)
               ELSE IF newCount < oldCount
                    THEN fish' = Deactivated(fish, newCount)
                    ELSE fish' = fish
        /\ fishCount' = newCount
        /\ UNCHANGED <<behavior, isPaused, now, deltaTime, frames,
                       partitionSize, spatialGrid, lastTime>>

\* getStats().activeFish
ActiveFish == Cardinality({k \in 1..Len(fish) : fish[k].isActive})

Next == Update \/ SetPaused \/ UpdateBehavior \/ UpdateConfig

Spec == Init /\ [][Next]_vars

-----------------------------------------------------------------------------
(* One fish followed over a long swim: enough frames to reach every speed   *)
(* mode's target, with all the draws of the timers, modes and turns.        *)

\* the default behavior, and the one with the kinematic sliders at their top
SwimBehaviors == {DefaultBehavior, Assign(DefaultBehavior, BehaviorEdit)}

SwimInit ==
    /\ behavior \in SwimBehaviors
    /\ fishCount = 1
    /\ fish \in Grown(<<>>, fishCount, behavior, 0, SwimSpawnDraws)
    /\ isPaused = FALSE
    /\ now = 0
    /\ deltaTime = 0
    /\ frames = 0
    /\ partitionSize = PartitionSize
    /\ spatialGrid = EmptyGrid
    /\ lastTime = 0

Swim == Frame(SwimElapsed, SwimDraws, MaxSwimFrames, MaxSwimTime)

SwimNext == Swim

SwimSpec == SwimInit /\ [][SwimNext]_vars

-----------------------------------------------------------------------------
(* Properties                                                              *)

InBox(p, lo, hi) == \A a \in 1..3 : lo[a] <= p[a] /\ p[a] <= hi[a]

\* C1: after every tick (deltaTime in (0, 1/30 s]) each fish's position is
\* inside [bounds.min, bounds.max] on every axis: the hard clamp puts it at
\* least 0.5 units inside and one tick moves it less than that.
BoundaryContainment ==
    \A k \in 1..Len(fish) : InBox(fish[k].physics.position, BoundsMin, BoundsMax)

\* a fish pressed against the z-max face at burst speed: one tick has carried
\* it more than 0.4 units beyond the clamp margin
BoundaryContainmentWitness ==
    /\ frames > 0
    /\ \E k \in 1..Len(fish) :
           /\ fish[k].physics.position[3] > BoundsMax[3] - 100
           /\ fish[k].movement.speed.currentMode = BURST

\* the fish an unpaused update() call updates
Active == {k \in 1..Len(fish) : fish[k].isActive}

\* the step is an update() call that reached the fish
Ticked == frames' # frames /\ ~isPaused

\* C2: after resizes to n, getStats().activeFish equals n.
ResizeReachesCount == ActiveFish = fishCount

\* C3: update() calls made while paused leave every fish exactly as it was, so
\* that the first update after setPaused(false) starts from that state.
PauseIdempotent ==
    [][(isPaused /\ frames' # frames) => fish' = fish]_vars

\* two update() calls have been made, the flock is paused, and a fish built
\* at time 0 and active ever since is still as its constructor left it
PauseIdempotentWitness ==
    /\ isPaused
    /\ frames >= 2
    /\ \E k \in Active :
           /\ fish[k].movement.speed.lastModeChange = 0
           /\ fish[k].movement.undulation.speedMultiplier = ONE
           /\ fish[k].physics.position \in {SpawnPosition(d) : d \in FlockSpawnDraws}

\* C4: after updateBehavior the next tick of every active fish runs with the
\* new accelerationRate, rollSpeed, maxRollAngle, undulationFrequency and
\* maxTurnRate, scaled by the fish's trait multipliers.
HotUpdateTakesEffect ==
    [][Ticked =>
         \A k \in Active :
            LET f    == fish'[k]
                turn == Mul(behavior.maxTurnRate, f.size.turnRateMultiplier)
            IN  /\ f.movement.speed.acceleration =
                       Mul(behavior.accelerationRate, f.size.agilityMultiplier)
                /\ f.movement.roll.rollSpeed =
                       Mul(behavior.rollSpeed, f.size.agilityMultiplier)
                /\ f.movement.roll.maxRollAngle = behavior.maxRollAngle
                /\ f.movement.undulation.frequency =
                       Mul(behavior.undulationFrequency, f.size.agilityMultiplier)
                /\ f.movement.direction.turnRate \in {turn, RDiv(turn * 3, 2)}]_vars

\* the speed range: 0 to the fastest burst of the fastest fish
SpeedInRange ==
    \A k \in 1..Len(fish) :
        /\ 0 <= fish[k].movement.speed.currentSpeed
        /\ fish[k].movement.speed.currentSpeed <= Mul(Mul(BURST, 1150), 1300)

\* v moves to w toward target by at most maxChange, without passing it
Approaches(v, w, target, maxChange) ==
    /\ Abs(w - v) <= maxChange
    /\ v <= target => (v <= w /\ w <= target)
    /\ v >= target => (target <= w /\ w <= v)

\* one tick's change of speed
SpeedRateLimited ==
    Ticked =>
        \A k \in Active :
            Approaches(fish[k].movement.speed.currentSpeed,
                       fish'[k].movement.speed.currentSpeed,
                       fish'[k].movement.speed.targetSpeed,
                       Mul(fish'[k].movement.speed.acceleration, deltaTime'))

\* C5: 0 <= currentSpeed <= 4.0 * 1.15 * 1.3 BL/s in every state; a tick moves
\* currentSpeed toward targetSpeed by at most acceleration * deltaTime and
\* never past it.
SpeedBound == []SpeedInRange /\ [][SpeedRateLimited]_vars

\* a fish above 5 BL/s that is still accelerating toward its burst target
SpeedBoundWitness ==
    /\ deltaTime = MaxDeltaTime
    /\ \E k \in Active :
           /\ fish[k].movement.speed.currentSpeed > 5000
           /\ fish[k].movement.speed.currentSpeed < fish[k].movement.speed.targetSpeed

PhaseInClosedRange ==
    \A k \in 1..Len(fish) :
        /\ 0 <= fish[k].movement.undulation.phase
        /\ fish[k].movement.undulation.phase <= TWO_PI

\* one tick's change of phase
PhaseAdvances ==
    Ticked =>
        \A k \in Active :
            LET old == fish[k].movement.undulation.phase
                new == fish'[k].movement.undulation.phase
                adv == PhaseAdvance(fish[k], deltaTime')
            IN  \/ new > old /\ new = old + adv
                \/ old + adv > TWO_PI /\ new = old + adv - TWO_PI

RollInRange ==
    \A k \in 1..Len(fish) :
        Abs(fish[k].movement.roll.currentAngle) <= fish[k].movement.roll.maxRollAngle

\* one tick's change of roll
RollRateLimited ==
    Ticked =>
        \A k \in Active :
            Approaches(fish[k].movement.roll.currentAngle,
                       fish'[k].movement.roll.currentAngle,
                       fish'[k].movement.roll.targetAngle,
                       Mul(fish'[k].movement.roll.rollSpeed, deltaTime'))

\* C7: |roll.currentAngle| <= roll.maxRollAngle in every state; a tick moves
\* currentAngle toward targetAngle by at most rollSpeed * deltaTime and never
\* past it.
RollBound == []RollInRange /\ [][RollRateLimited]_vars

\* a fish banking into a turn, part of the way to its roll target
RollBoundWitness ==
    /\ frames > 0
    /\ \E k \in Active :
           /\ fish[k].movement.roll.currentAngle # 0
           /\ fish[k].movement.roll.currentAngle # fish[k].movement.roll.targetAngle
           /\ fish[k].movement.direction.isChangingDirection

\* unit length within the rounding of the fixed-point components
IsUnit(v) == Abs(Dot(v, v) - ONE * ONE) <= 2 * ONE

\* the avoidance blend (both weights) and the social blend (individual and
\* social weight both 0.5) applied to fish f with the blended vector made
\* exactly opposite to its heading
OppositeBlendsUnit(f) ==
    /\ \A urgent \in BOOLEAN :
           IsUnit(AvoidanceHeading(f.movement.direction.currentHeading,
                                   VSub(ZeroVec, f.movement.direction.currentHeading),
                                   urgent))
    /\ IsUnit(Influence(f, VScale(f.movement.direction.currentHeading, -500),
                        MaxDeltaTime,
                        [behavior EXCEPT !.individualWeight = 500,
                                         !.socialWeight = 500])
                  .movement.direction.targetHeading)

\* C8: currentHeading and targetHeading have unit length in every state,
\* and a blend of exactly opposite vectors leaves a unit vector too.
HeadingsUnit ==
    \A k \in 1..Len(fish) :
        /\ IsUnit(fish[k].movement.direction.currentHeading)
        /\ IsUnit(fish[k].movement.direction.targetHeading)
        /\ OppositeBlendsUnit(fish[k])

\* a fish heading straight at a wall has been ticked: the avoidance direction
\* blended into its heading, and the target it now turns to, are exactly
\* opposite to the heading
HeadingsUnitWitness ==
    /\ frames > 0
    /\ \E k \in Active :
           /\ fish[k].movement.direction.isChangingDirection
           /\ VAdd(fish[k].movement.direction.currentHeading,
                   fish[k].movement.direction.targetHeading) = ZeroVec

\* the velocity is the heading scaled by speed and body length
VelocityProjected ==
    \A k \in 1..Len(fish) :
        fish[k].physics.velocity =
            VScale(fish[k].movement.direction.currentHeading,
                   Mul(fish[k].movement.speed.currentSpeed, fish[k].size.bodyLength))

\* one tick's change of position
PositionIntegrated ==
    Ticked =>
        \A k \in Active :
            fish'[k].physics.position =
                VAdd(HardClamp(fish[k].physics.position, BoundsMin, BoundsMax),
                     VScale(fish'[k].physics.velocity, deltaTime'))

NoOtherInRange(k) ==
    \A j \in 1..Len(fish) :
        j # k => Distance(fish[k].physics.position, fish[j].physics.position)
                     > behavior.neighborRadius

\* C10: for a fish with no other fish within neighborRadius the social force
\* is the zero vector and the flocking step changes nothing: targetHeading
\* and isChangingDirection stay as they were.
ZeroNeighborSafe ==
    \A k \in 1..Len(fish) :
        NoOtherInRange(k) =>
            /\ SocialForce(fish, k, GetNearbyNeighbors(fish, k, behavior), behavior)
                   = ZeroVec
            /\ UpdateFlockingBehavior(fish, k, MaxDeltaTime, behavior) = fish[k]

\* a flock of two, ticked, in which a fish has nobody within neighborRadius
ZeroNeighborSafeWitness ==
    /\ frames > 0
    /\ Len(fish) >= 2
    /\ \E k \in Active : NoOtherInRange(k)

\* C11: the neighbors found for an active fish are other fish, active, and
\* within neighborRadius.
NeighborsActiveOthers ==
    \A k \in Active :
        \A j \in {GetNearbyNeighbors(fish, k, behavior)[n] :
                      n \in 1..Len(GetNearbyNeighbors(fish, k, behavior))} :
            /\ j # k
            /\ fish[j].isActive
            /\ Distance(fish[k].physics.position, fish[j].physics.position)
                   <= behavior.neighborRadius

-----------------------------------------------------------------------------
(* Neighbor search through the spatial grid                                *)

\* Fish.findNeighbors: the active fish other than i within radius
FindNeighbors(fs, i, radius) ==
    {j \in 1..Len(fs) :
        /\ j # i
        /\ fs[j].isActive
        /\ Distance(fs[i].physics.position, fs[j].physics.position) <= radius}

\* fault variant of CellOffsets: the cells below are not looked up
CellOffsetsForward == {0, 1}

\* the offsets dx, dy, dz of the cells looked up around the fish's own cell
CellOffsets == {-1, 0, 1}

\* spatialGrid.get(key) || []
CellFish(grid, key) == IF key \in DOMAIN grid THEN grid[key] ELSE <<>>

\* the fish listed in the cells around the cell of position p
FishAround(grid, key) ==
    UNION { {CellFish(grid, VAdd(key, <<dx, dy, dz>>))[n] :
                 n \in 1..Len(CellFish(grid, VAdd(key, <<dx, dy, dz>>)))}
            : dx \in CellOffsets, dy \in CellOffsets, dz \in CellOffsets }

\* findNeighborsOptimized with spatial partitioning on, as a set
FindNeighborsOptimized(fs, i, radius, ps, grid) ==
    {j \in FishAround(grid, GridKey(fs[i].physics.position, ps)) :
        /\ j # i
        /\ fs[j].isActive
        /\ Distance(fs[i].physics.position, fs[j].physics.position) <= radius}

\* number of fish placed
GridFish == 3

\* the placements tried: positions on both sides of cell borders, with
\* negative coordinates
GridPositions ==
    { <<0, 0, 0>>, <<-1000, 0, 0>>, <<49000, 0, 0>>, <<50000, 0, -1000>>,
      <<0, -26000, 0>>, <<-1000, -1000, -1000>>, <<-50000, 0, -50000>> }

GridPartitionSizes == {25000, 50000}

GridRadii == {25000, 50000}

\* a list of n fish, built at time 0, one at each of the given positions
RECURSIVE Placed(_, _)
Placed(n, b) ==
    IF n = 0 THEN {<<>>}
    ELSE UNION { {Append(fs, NewFish(p, b, 0, 0, 0, 0)) : p \in GridPositions}
                 : fs \in Placed(n - 1, b) }

GridInit ==
    /\ behavior \in {[DefaultBehavior EXCEPT !.neighborRadius = r] : r \in GridRadii}
    /\ fishCount = GridFish
    /\ fish \in Placed(fishCount, behavior)
    /\ isPaused = FALSE
    /\ now = 0
    /\ deltaTime = 0
    /\ frames = 0
    /\ partitionSize \in GridPartitionSizes
    /\ spatialGrid = EmptyGrid
    /\ lastTime = 0

\* the first step of update(): the grid is rebuilt from the current positions
RebuildGrid ==
    /\ spatialGrid' = UpdateSpatialGrid(fish, partitionSize)
    /\ UNCHANGED <<fish, behavior, fishCount, isPaused, now, deltaTime, frames,
                   partitionSize, lastTime>>

GridNext == RebuildGrid \/ UpdateConfig

GridSpec == GridInit /\ [][GridNext]_vars

\* C12: with the grid rebuilt from the current positions and partitionSize >=
\* radius, the grid lookup returns the same set of fish as the search through
\* the whole list, for every fish.
GridMatchesBruteForce ==
    (/\ spatialGrid = UpdateSpatialGrid(fish, partitionSize)
     /\ partitionSize >= behavior.neighborRadius)
        => \A k \in 1..Len(fish) :
               FindNeighborsOptimized(fish, k, behavior.neighborRadius,
                                      partitionSize, spatialGrid)
                   = FindNeighbors(fish, k, behavior.neighborRadius)

\* the grid is fresh, a fish has been deactivated, and two active fish in
\* different cells, one of negative index, are neighbors
GridMatchesBruteForceWitness ==
    /\ spatialGrid = UpdateSpatialGrid(fish, partitionSize)
    /\ spatialGrid # EmptyGrid
    /\ partitionSize >= behavior.neighborRadius
    /\ \E k \in 1..Len(fish) : ~fish[k].isActive
    /\ \E k \in Active :
           \E j \in FindNeighbors(fish, k, behavior.neighborRadius) :
               /\ GridKey(fish[k].physics.position, partitionSize)
                      # GridKey(fish[j].physics.position, partitionSize)
               /\ GridKey(fish[j].physics.position, partitionSize)[1] < 0

-----------------------------------------------------------------------------
(* Two fish spawned one unit apart                                         *)

\* the position of the first fish of the pair: two in open water, one 3 units
\* from the face z = max
PairBases == { <<0, 0, 0>>, <<-20000, 5000, 30000>>, <<0, 0, 97000>> }

\* the second fish's position relative to the first: one unit away
PairOffsets ==
    { <<1000, 0, 0>>, <<-1000, 0, 0>>, <<0, 1000, 0>>, <<0, -1000, 0>>,
      <<0, 0, 1000>>, <<0, 0, -1000>>, <<600, 0, 800>> }

\* the normal draws of the two sizes
PairSizeVariations == {-450, 0, 450}

PairInit ==
    /\ behavior = DefaultBehavior
    /\ fishCount = 2
    /\ fish \in { << NewFish(p, behavior, 0, s1, 0, 0),
                     NewFish(VAdd(p, o), behavior, 0, s2, 3000, 1000) >> :
                  p \in PairBases, o \in PairOffsets,
                  s1 \in PairSizeVariations, s2 \in PairSizeVariations }
    /\ isPaused = FALSE
    /\ now = 0
    /\ deltaTime = 0
    /\ frames = 0
    /\ partitionSize = PartitionSize
    /\ spatialGrid = EmptyGrid
    /\ lastTime = 0

PairNext == Update

PairSpec == PairInit /\ [][PairNext]_vars

\* in this step fish k's current or target heading has moved away from fish j
HeadingDiverged(k, j) ==
    \/ Dot(VSub(fish'[k].movement.direction.currentHeading,
                fish[k].movement.direction.currentHeading),
           VSub(fish[k].physics.position, fish[j].physics.position)) > 0
    \/ Dot(VSub(fish'[k].movement.direction.targetHeading,
                fish[k].movement.direction.targetHeading),
           VSub(fish[k].physics.position, fish[j].physics.position)) > 0

\* the first tick of the pair
PairDiverges ==
    (frames = 0 /\ Ticked) =>
        /\ HeadingDiverged(1, 2)
        /\ HeadingDiverged(2, 1)
        /\ Distance(fish'[1].physics.position, fish'[2].physics.position)
               >= Distance(fish[1].physics.position, fish[2].physics.position)

\* C13: in the first tick of two fish spawned 1 unit apart (separationRadius
\* 8) both headings move in the separation direction and the distance between
\* the fish does not shrink.
SeparationDiverges == [][PairDiverges]_vars

\* the clamp of the three trait multipliers
ClampMultiplier(scaleFactor) == Max(700, Min(1300, 2000 - scaleFactor))

\* normal draws on both sides of the two clamps
SizeVariations == {-1000, -450, -400, -300, -1, 0, 300, 400, 401, 450, 1000}

TraitsOf(size) ==
    /\ 600 <= size.scaleFactor /\ size.scaleFactor <= 1400
    /\ size.speedMultiplier = ClampMultiplier(size.scaleFactor)
    /\ size.agilityMultiplier = ClampMultiplier(size.scaleFactor)
    /\ size.turnRateMultiplier = ClampMultiplier(size.scaleFactor)
    /\ 700 <= ClampMultiplier(size.scaleFactor)
    /\ ClampMultiplier(size.scaleFactor) <= 1300

TraitsInRange ==
    /\ \A k \in 1..Len(fish) : TraitsOf(fish[k].size)
    /\ \A s \in SizeVariations :
           TraitsOf(GenerateSizeCharacteristics(behavior.bodyLength, s))

\* no step changes the size traits of a fish it keeps
TraitsKept ==
    \A k \in 1..Len(fish) : k <= Len(fish') /\ fish'[k].size = fish[k].size

\* C14: every fish has scaleFactor in [0.6, 1.4] and its three multipliers
\* equal to clamp(2.0 - scaleFactor) into [0.7, 1.3]; update(), updateBehavior()
\* and resizes never change these traits.
TraitBounds == []TraitsInRange /\ [][TraitsKept]_vars

\* after a tick, a hot update and a shrink: a fish whose size was clamped to
\* 0.6 and whose multipliers were clamped to 1.3
TraitBoundsWitness ==
    /\ frames > 0
    /\ behavior # DefaultBehavior
    /\ \E k \in 1..Len(fish) : ~fish[k].isActive
    /\ \E k \in Active :
           /\ fish[k].size.scaleFactor = 600
           /\ fish[k].size.speedMultiplier = 1300

\* the step is an updateBehavior call
BehaviorUpdated == behavior' # behavior

\* C15: updateBehavior changes no fish: positions, velocities, rotations,
\* phases, roll angles, speeds, headings, isChangingDirection, timers and
\* active flags stay as they were, and so do the number and order of fish.
BehaviorEditKeepsFish == [][BehaviorUpdated => fish' = fish]_vars

\* the behavior has been edited in a run whose fish, built before the edit,
\* have been ticked
BehaviorEditKeepsFishWitness ==
    /\ frames > 0
    /\ deltaTime > 0
    /\ behavior = Assign(DefaultBehavior, BehaviorEdit)
    /\ \E k \in Active :
           /\ fish[k].movement.speed.acceleration
                  = Mul(DefaultBehavior.accelerationRate, fish[k].size.agilityMultiplier)
           /\ fish[k].movement.undulation.phase # 0
           /\ fish[k].movement.undulation.phase # 3000

-----------------------------------------------------------------------------
(* The frame driver                                                        *)

\* performance.now() when the flock is built, in ms
SceneStarts == {0, 10, 50}

\* time between two animation frames, in ms
SceneElapsed == {0, 16, 4000}

SceneInit ==
    /\ behavior = DefaultBehavior
    /\ fishCount = 1
    /\ now \in SceneStarts
    /\ fish \in Grown(<<>>, fishCount, behavior, now, FlockSpawnDraws)
    /\ isPaused = FALSE
    /\ deltaTime = 0
    /\ frames = 0
    /\ partitionSize = PartitionSize
    /\ spatialGrid = EmptyGrid
    /\ lastTime = 0

\* most animation frames
MaxSceneFrames == 3

\* SardinesScene.update(), called once per animation frame: a paused scene
\* returns at once and leaves lastTime alone
SceneUpdate ==
    \E el \in SceneElapsed :
        /\ frames < MaxSceneFrames
        /\ now' = now + el
        /\ frames' = frames + 1
        /\ IF isPaused
           THEN UNCHANGED <<fish, deltaTime, spatialGrid, lastTime>>
           ELSE /\ deltaTime' = ClampedDelta(now' - lastTime)
                /\ lastTime' = now'
                /\ fish' \in UpdatedLists(fish, isPaused, deltaTime', now', behavior,
                                         FlockDraws)
                /\ spatialGrid' = GridAfterUpdate(spatialGrid, fish, isPaused,
                                                  partitionSize)
        /\ UNCHANGED <<behavior, fishCount, isPaused, partitionSize>>

\* SardinesScene.setPaused sets the scene's flag and the flock's to the same
\* value
SceneNext == SceneUpdate \/ SetPaused

SceneSpec == SceneInit /\ [][SceneNext]_vars

\* C16: every deltaTime handed to FlockManager.update is between 0 and 1/30 s,
\* on the first frame and on the first frame after a pause too.
DeltaTimeClamped == 0 <= deltaTime /\ deltaTime <= MaxDeltaTime

\* two frames went by paused, one of them four seconds long, and the first
\* update() call to reach the flock was handed 1/30 s: the fish are one such
\* tick away from their construction
DeltaTimeClampedWitness ==
    /\ frames = 3
    /\ ~isPaused
    /\ lastTime = now
    /\ now >= 4016
    /\ deltaTime = MaxDeltaTime
    /\ \E t \in SceneStarts :
           \E fs \in Grown(<<>>, fishCount, behavior, t, FlockSpawnDraws) :
               fish \in UpdatedLists(fs, FALSE, MaxDeltaTime, now, behavior, FlockDraws)

-----------------------------------------------------------------------------
(* Configuration values of any sign                                        *)

\* partial behaviors a caller can pass to updateBehavior: the sidebar's, and
\* two with a negative radius
ConfigEdits ==
    { BehaviorEdit, [neighborRadius |-> -5000], [separationRadius |-> -1000] }

UpdateBehaviorAny == \E newBehavior \in ConfigEdits : UpdateBehaviorWith(newBehavior)

ConfigNext == Update \/ UpdateBehaviorAny

ConfigSpec == Init /\ [][ConfigNext]_vars

\* no radius of the behavior is negative
ValidBehavior(b) == b.neighborRadius >= 0 /\ b.separationRadius >= 0

\* C17: a negative radius passed to updateBehavior is rejected or clamped: no
\* tick runs with a behavior that holds one.
ConfigValidAtTick == [][Ticked => ValidBehavior(behavior)]_vars

\* isChangingDirection of fish f after a flocking step whose combined social
\* vector is force, as C18 states it
TriggeredFlag(f, force) ==
    IF Length(force) > 500 THEN TRUE
    ELSE f.movement.direction.isChangingDirection

\* C18: the flocking step forces isChangingDirection to true exactly when the
\* magnitude of cohesion * cohesionStrength + separation * separationStrength
\* + alignment * alignmentStrength exceeds 0.5, and leaves it alone otherwise.
SocialTriggerByMagnitude ==
    \A k \in Active :
        UpdateFlockingBehavior(fish, k, MaxDeltaTime, behavior)
                .movement.direction.isChangingDirection
            = TriggeredFlag(fish[k],
                            SocialForce(fish, k, GetNearbyNeighbors(fish, k, behavior),
                                        behavior))

\* fish k is within urgentDistance of a face when the tick's boundary
\* avoidance looks at it: the position is the one the tick started with
UrgentAtTick(k) ==
    /\ UrgentAvoidance(fish[k], BoundsMin, BoundsMax)
    /\ Length(AvoidanceForce(fish[k], BoundsMin, BoundsMax)) > 0

\* the heading boundary avoidance chose in this tick for fish k: the blend of
\* the heading the tick's turn left with the avoidance direction
ChosenByAvoidance(k) ==
    AvoidanceHeading(fish'[k].movement.direction.currentHeading,
                     AvoidanceForce(fish[k], BoundsMin, BoundsMax), TRUE)

ContainmentWins ==
    Ticked =>
        \A k \in Active :
            UrgentAtTick(k) =>
                fish'[k].movement.direction.targetHeading = ChosenByAvoidance(k)

\* C19: in a tick in which a fish is within urgentDistance of a face its
\* targetHeading ends the tick as boundary avoidance set it, whatever its
\* neighbors are.
ContainmentPrecedence == [][ContainmentWins]_vars

\* maxTurnRate * turnRateMultiplier
BaseTurnRate(f, b) == Mul(b.maxTurnRate, f.size.turnRateMultiplier)

\* a tick that finds the fish outside every urgent zone leaves its turnRate
\* at maxTurnRate * turnRateMultiplier
BoostOnlyWhenUrgent ==
    Ticked =>
        \A k \in Active :
            ~UrgentAvoidance(fish[k], BoundsMin, BoundsMax) =>
                fish'[k].movement.direction.turnRate = BaseTurnRate(fish[k], behavior)

\* C20: direction.turnRate is maxTurnRate * turnRateMultiplier * 1.5 only in
\* ticks in which the fish is within urgentDistance of a face; in every tick
\* after it has left the urgent zones it is maxTurnRate * turnRateMultiplier.
TurnRateBoostTemporary == [][BoostOnlyWhenUrgent]_vars

-----------------------------------------------------------------------------
(* The turn state machine                                                  *)

\* the first fish of the turning pair: in open water, 10 units from the face
\* z = max (inside avoidanceDistance), 3 units from it (inside urgentDistance)
TurnBases == { <<0, 0, 0>>, <<0, 0, 90000>>, <<0, 0, 97000>> }

\* the second fish beside the first: inside separationRadius, or outside it
\* and inside neighborRadius
TurnOffsets == { <<1000, 0, 0>>, <<12000, 0, 0>> }

\* two moves of the sidebar's sliders: socialWeight up to 0.7, neighborRadius
\* down to its minimum
TurnEdits == { [socialWeight |-> 700], [neighborRadius |-> 10000] }

TurnInit ==
    /\ behavior = DefaultBehavior
    /\ fishCount = 2
    /\ fish \in { << NewFish(p, behavior, 0, 0, 0, 0),
                     NewFish(VAdd(p, o), behavior, 0, 0, 3000, 1000) >> :
                  p \in TurnBases, o \in TurnOffsets }
    /\ isPaused = FALSE
    /\ now = 0
    /\ deltaTime = 0
    /\ frames = 0
    /\ partitionSize = PartitionSize
    /\ spatialGrid = EmptyGrid
    /\ lastTime = 0

UpdateBehaviorTurn == \E newBehavior \in TurnEdits : UpdateBehaviorWith(newBehavior)

TurnNext == Update \/ UpdateBehaviorTurn

TurnSpec == TurnInit /\ [][TurnNext]_vars

\* the list fish k reads when update() reaches it: the fish before it have
\* been updated in this tick, the others not yet
ListAt(k) == [j \in 1..Len(fish) |-> IF j < k THEN fish'[j] ELSE fish[j]]

\* fish f after undulation, speed variation and direction changes
Turned(f, dt, t, r) ==
    UpdateDirectionChanges(UpdateSpeedVariation(UpdateUndulation(f, dt), dt, t, r),
                           dt, t, r)

\* fish f after the roll step that follows
Rolled(f, dt, t, r) == UpdateRoll(Turned(f, dt, t, r), dt)

\* fish f after the boundary avoidance that follows
Avoided(f, dt, t, b, r) ==
    UpdateBoundaryAvoidance(Rolled(f, dt, t, r), b, BoundsMin, BoundsMax)

\* the direction record after a trigger found the flag set: only targetHeading
\* differs, and turnRate too if boost says so
Retargeted(before, after, boost) ==
    after = [before EXCEPT !.targetHeading = after.targetHeading,
                           !.turnRate = IF boost THEN after.turnRate ELSE @]

\* the rules of the turn state machine for fish k in a tick made with the
\* draws r; boosting says whether a trigger may write turnRate
TurnRules(k, r, boosting) ==
    LET f0 == fish[k]
        fT == Turned(f0, deltaTime', now', r)
        fR == Rolled(f0, deltaTime', now', r)
        fA == Avoided(f0, deltaTime', now', behavior, r)
        fF == fish'[k]
        d0 == f0.movement.direction
        dT == fT.movement.direction
        dA == fA.movement.direction
        dF == fF.movement.direction
        expired == now' - d0.lastDirectionChange > 2000 + 4 * r.turnTimer
        force  == AvoidanceForce(fR, BoundsMin, BoundsMax)
        urgent == UrgentAvoidance(fR, BoundsMin, BoundsMax)
    IN  \* idle to turning: the timer, boundary avoidance, the social force
        /\ (~d0.isChangingDirection /\ dT.isChangingDirection) =>
               expired /\ dT.lastDirectionChange = now'
        /\ (~dT.isChangingDirection /\ dA.isChangingDirection) => Length(force) > 0
        /\ (~dA.isChangingDirection /\ dF.isChangingDirection) =>
               GetNearbyNeighbors([ListAt(k) EXCEPT ![k] = fA], k, behavior) # <<>>
        \* the timer is not read while turning
        /\ d0.isChangingDirection =>
               /\ dT.lastDirectionChange = d0.lastDirectionChange
               /\ dT.targetHeading = d0.targetHeading
        \* turning to idle: only the turn step, within the tolerance
        /\ (d0.isChangingDirection /\ ~dT.isChangingDirection) =>
               /\ AngleTo(d0.currentHeading, d0.targetHeading) <= 50
               /\ dT.currentHeading = d0.targetHeading
               /\ fT.movement.roll.targetAngle = 0
        /\ dT.isChangingDirection => dA.isChangingDirection
        /\ dA.isChangingDirection => dF.isChangingDirection
        \* a trigger while turning
        /\ (dT.isChangingDirection /\ Length(force) > 0) =>
               /\ Retargeted(dT, dA, boosting /\ urgent)
               /\ fA.movement = [fR.movement EXCEPT !.direction = dA]
        /\ dA.isChangingDirection =>
               /\ Retargeted(dA, dF, FALSE)
               /\ fF.movement = [fA.movement EXCEPT !.direction = dF]

\* the rules hold for every fish the tick updated
TurnRulesKept(boosting) ==
    Ticked =>
        \A k \in Active :
            \A r \in FlockDraws :
                fish'[k] = FishUpdate(ListAt(k), k, deltaTime', now', behavior,
                                      BoundsMin, BoundsMax, r)
                    => TurnRules(k, r, boosting)

\* C21 as stated: isChangingDirection becomes true only through the timer
\* (read only while the flag is false), boundary avoidance with a nonzero
\* force or the social trigger; it becomes false only in the turn step, when
\* the angle to targetHeading is at most 0.05 rad, and then currentHeading is
\* targetHeading and roll.targetAngle is 0; a trigger that finds the flag set
\* changes targetHeading and nothing else.
TurnStateMachineStrict == [][TurnRulesKept(FALSE)]_vars

\* C21: the same state machine, where a trigger that finds the flag set
\* changes targetHeading and, when it is an urgent boundary avoidance,
\* direction.turnRate, and nothing else.
TurnStateMachine == [][TurnRulesKept(TRUE)]_vars

\* a turn has been completed: after two ticks a fish is idle again, level,
\* on the heading that a trigger of the first tick gave it as its target
TurnStateMachineWitness ==
    /\ frames = 2
    /\ \E k \in Active :
           /\ ~fish[k].movement.direction.isChangingDirection
           /\ fish[k].movement.direction.currentHeading # <<0, 0, ONE>>
           /\ fish[k].movement.direction.currentHeading
                  = fish[k].movement.direction.targetHeading
           /\ fish[k].movement.roll.targetAngle = 0

-----------------------------------------------------------------------------
(* One fish followed over its speed-mode changes                           *)

\* largest number of update() calls, and the latest time of one
MaxModeFrames == 3

MaxModeTime == 13000

\* time between two animation frames, in ms: a regular frame and two stalls
ModeElapsed == {33, 3500, 4600}

\* the draws of one update: the mode timer at both ends of [0, 1), one pick
\* in each mode's share of [0, 1), the speed jitter at both ends and in the
\* middle
ModeDraws ==
    { [modeTimer |-> mt, modePick |-> m[1], speedJitter |-> m[2],
       turnTimer |-> 0, turn |-> <<0, -1000>>]
      : mt \in {0, 999},
        m \in {<<100, 0>>, <<600, 500>>, <<900, 500>>, <<990, 999>>} }

ModeInit ==
    /\ behavior = DefaultBehavior
    /\ fishCount = 1
    /\ fish \in Grown(<<>>, fishCount, behavior, 0,
                      {d \in SwimSpawnDraws : d.rz = 500})
    /\ isPaused = FALSE
    /\ now = 0
    /\ deltaTime = 0
    /\ frames = 0
    /\ partitionSize = PartitionSize
    /\ spatialGrid = EmptyGrid
    /\ lastTime = 0

ModeSwim == Frame(ModeElapsed, ModeDraws, MaxModeFrames, MaxModeTime)

ModeNext == ModeSwim

ModeSpec == ModeInit /\ [][ModeNext]_vars

\* the Math.random() values, in thousandths, for which changeSpeedMode picks
\* mode
ModeShare(mode) == {u \in 0..999 : PickMode(u) = mode}

\* the shares of [0, 1) are [0, 0.2], (0.2, 0.7], (0.7, 0.95] and (0.95, 1)
ModeWeights ==
    /\ ModeShare(RESTING)  = 0..200
    /\ ModeShare(CRUISING) = 201..700
    /\ ModeShare(ACTIVE)   = 701..950
    /\ ModeShare(BURST)    = 951..999

\* the speed system of fish k has a new mode or a new target in this step
ModeChanged(k) ==
    \/ fish'[k].movement.speed.lastModeChange # fish[k].movement.speed.lastModeChange
    \/ fish'[k].movement.speed.currentMode # fish[k].movement.speed.currentMode
    \/ fish'[k].movement.speed.targetSpeed # fish[k].movement.speed.targetSpeed

\* the rule of one tick: a change comes more than 3 s after the last one,
\* stamps the tick's time and sets the mode and the target of one draw; a tick
\* 8 s or more after the last change makes one
ModeTiming ==
    Ticked =>
        \A k \in Active :
            LET speed   == fish[k].movement.speed
                elapsed == now' - speed.lastModeChange
            IN  /\ ModeChanged(k) =>
                       /\ elapsed > 3000
                       /\ fish'[k].movement.speed.lastModeChange = now'
                       /\ \E r \in ModeDraws :
                              /\ fish'[k].movement.speed.currentMode = PickMode(r.modePick)
                              /\ fish'[k].movement.speed.targetSpeed =
                                     Mul(PickMode(r.modePick) + Mul(r.speedJitter - 500, 300),
                                         fish[k].size.speedMultiplier)
                /\ elapsed >= 8000 => fish'[k].movement.speed.lastModeChange = now'
                /\ elapsed <= 3000 => ~ModeChanged(k)

\* C22: two consecutive speed-mode changes of a fish are never less than 3 s
\* apart on the clock the fish reads, a change happens no later than the
\* first tick at which 8 s or more have elapsed since lastModeChange, each
\* change sets lastModeChange to the tick's time and draws one mode with the
\* shares 0.2, 0.5, 0.25 and 0.05 of RESTING, CRUISING, ACTIVE and BURST.
SpeedModeTiming == []ModeWeights /\ [][ModeTiming]_vars

\* the fish changed to BURST 8.1 s after its construction: the tick at 3.5 s
\* drew a longer wait and left the mode alone, the next one had to change it
SpeedModeTimingWitness ==
    /\ frames = 2
    /\ now = 8100
    /\ \E k \in Active :
           /\ fish[k].movement.speed.lastModeChange = 8100
           /\ fish[k].movement.speed.currentMode = BURST

\* C23: in every state undulation.speedMultiplier, set by updateUndulation to
\* 1 + (currentSpeed / 4.0) * 1.5, lies in [1.0, 2.5], for every fish size and
\* every speed mode, BURST with its +0.15 variation included.
UndulationMultiplierRange ==
    \A k \in 1..Len(fish) :
        /\ ONE <= fish[k].movement.undulation.speedMultiplier
        /\ fish[k].movement.undulation.speedMultiplier <= 2500

-----------------------------------------------------------------------------
(* FlockManager with the Fish class whose constructor it calls: the one    *)
(* with an id and an isActive flag, constructed from (id, position,        *)
(* behavior).  Only the fields that construction, updateBehavior and       *)
(* updateConfig touch are kept.                                            *)

\* largest population of this flock
MaxCopyFish == 3

\* partial behaviors passed to updateBehavior
CopyEdits == { BehaviorEdit, [neighborRadius |-> 30000], [socialWeight |-> 0] }

\* new Fish(id, position, behavior): "this.behavior = { ...behavior }" gives
\* the fish its own copy of the behavior's values
CopiedFish(id, position, b) ==
    [ id       |-> id,
      isActive |-> TRUE,
      behavior |-> b,
      physics  |-> [ position |-> position ] ]

\* the list grown to newCount: fish of ids Len(fs), ... are pushed, each built
\* from the behavior b
RECURSIVE CopiedGrown(_, _, _, _)
CopiedGrown(fs, newCount, b, spawns) ==
    IF Len(fs) >= newCount THEN {fs}
    ELSE UNION { CopiedGrown(Append(fs, CopiedFish(Len(fs), SpawnPosition(d), b)),
                             newCount, b, spawns)
                 : d \in spawns }

CopyInit ==
    /\ behavior = DefaultBehavior
    /\ fishCount \in 1..MaxCopyFish
    /\ fish \in CopiedGrown(<<>>, fishCount, behavior, GrowSpawnDraws)
    /\ isPaused = FALSE
    /\ now = 0
    /\ deltaTime = 0
    /\ frames = 0
    /\ partitionSize = PartitionSize
    /\ spatialGrid = EmptyGrid
    /\ lastTime = 0

\* updateBehavior(newBehavior): Object.assign into each fish's own behavior;
\* config.behavior is not written
CopyUpdateBehavior ==
    \E newBehavior \in CopyEdits :
        /\ fish' = [k \in 1..Len(fish) |->
                       [fish[k] EXCEPT !.behavior = Assign(@, newBehavior)]]
        /\ fish' # fish
        /\ UNCHANGED <<behavior, fishCount, isPaused, now, deltaTime, frames,
                       partitionSize, spatialGrid, lastTime>>

\* updateConfig({fishCount: newCount}): new fish are built from
\* config.behavior
CopyUpdateConfig ==
    \E newCount \in 1..MaxCopyFish :
        /\ newCount # fishCount
        /\ LET oldCount == Len(fish)
           IN  IF newCount > oldCount
               THEN fish' \in CopiedGrown(fish, newCount, behavior, GrowSpawnDraws)
               ELSE IF newCount < oldCount
                    THEN fish' = Deactivated(fish, newCount)
                    ELSE fish' = fish
        /\ fishCount' = newCount
        /\ UNCHANGED <<behavior, isPaused, now, deltaTime, frames,
                       partitionSize, spatialGrid, lastTime>>

CopyNext == CopyUpdateBehavior \/ CopyUpdateConfig

CopySpec == CopyInit /\ [][CopyNext]_vars

\* a grow step gives every new fish the behavior values of every fish that
\* was there before
GrownLikeTheOthers ==
    Len(fish') > Len(fish) =>
        \A k \in (Len(fish) + 1)..Len(fish') :
            \A j \in 1..Len(fish) : fish'[k].behavior = fish[j].behavior

\* C24: when the population is grown after updateBehavior(p), every new fish
\* has the behavior values of the fish that existed already, p included, and
\* not the values the flock was constructed with.
GrowthUsesCurrentBehavior == [][GrownLikeTheOthers]_vars

\* every fish the tick updated was updated from the list as the updates of
\* the fish before it had left it
SequentialReads ==
    Ticked =>
        \A k \in Active :
            \E r \in FlockDraws :
                fish'[k] = FishUpdate(ListAt(k), k, deltaTime', now', behavior,
                                      BoundsMin, BoundsMax, r)

\* C25: within a tick the fish are updated one after another in list order;
\* fish i reads the already updated position and velocity of every fish
\* j < i and the previous tick's ones of every fish j > i.
SingleBufferOrder == [][SequentialReads]_vars

\* the order has made a difference: the second fish is not where an update
\* from the positions and velocities of the tick's start would have put its
\* heading, for any pair the flock can start from
SingleBufferOrderWitness ==
    /\ frames = 1
    /\ deltaTime > 0
    /\ \A p \in TurnBases, o \in TurnOffsets :
           fish[2] # FishUpdate(<< NewFish(p, DefaultBehavior, 0, 0, 0, 0),
                                   NewFish(VAdd(p, o), DefaultBehavior, 0, 0, 3000, 1000) >>,
                                2, deltaTime, now, behavior, BoundsMin, BoundsMax,
                                CHOOSE r \in FlockDraws : TRUE)

\* fish g is fish f with at most its part sub of the movement state changed
OnlyWrites(f, g, sub) ==
    /\ g.isActive = f.isActive
    /\ g.size = f.size
    /\ g.physics = f.physics
    /\ \A s \in DOMAIN f.movement : s # sub => g.movement[s] = f.movement[s]

\* fish f with the bank target of fish g
WithBankTarget(f, g) ==
    [f EXCEPT !.movement.roll.targetAngle = g.movement.roll.targetAngle]

\* the four sub-system steps of one update of fish k with the draws r;
\* banking says whether the direction step may write roll.targetAngle
StepsIsolated(k, r, banking) ==
    LET f0 == fish[k]
        f1 == UpdateUndulation(f0, deltaTime')
        f2 == UpdateSpeedVariation(f1, deltaTime', now', r)
        f3 == UpdateDirectionChanges(f2, deltaTime', now', r)
        f4 == UpdateRoll(f3, deltaTime')
    IN  /\ OnlyWrites(f0, f1, "undulation")
        /\ OnlyWrites(f1, f2, "speed")
        /\ OnlyWrites(IF banking THEN WithBankTarget(f2, f3) ELSE f2, f3, "direction")
        /\ OnlyWrites(f3, f4, "roll")
        /\ banking => f4.movement.roll =
                          [f3.movement.roll EXCEPT
                              !.currentAngle = f4.movement.roll.currentAngle]

SubSystemsIsolated(banking) ==
    Ticked =>
        \A k \in Active :
            \A r \in FlockDraws :
                fish'[k] = FishUpdate(ListAt(k), k, deltaTime', now', behavior,
                                      BoundsMin, BoundsMax, r)
                    => StepsIsolated(k, r, banking)

\* C26 as stated: in one tick updateUndulation writes only undulation fields,
\* updateSpeedVariation only speed fields, updateDirectionChanges only
\* direction fields and updateRoll only roll fields.
SubSystemIsolationStrict == [][SubSystemsIsolated(FALSE)]_vars

\* C26: the same, where updateDirectionChanges writes the direction fields
\* and the bank target roll.targetAngle, and updateRoll writes
\* roll.currentAngle only.
SubSystemIsolation == [][SubSystemsIsolated(TRUE)]_vars

\* a tick has left a fish turning with a bank target set by its turn, and its
\* roll on the way to it
SubSystemIsolationWitness ==
    /\ frames > 0
    /\ \E k \in Active :
           /\ fish[k].movement.direction.isChangingDirection
           /\ fish[k].movement.roll.targetAngle # 0
           /\ fish[k].movement.roll.currentAngle # 0
           /\ fish[k].movement.roll.currentAngle # fish[k].movement.roll.targetAngle

-----------------------------------------------------------------------------
(* Three fish in degenerate arrangements                                   *)

\* where the second and the third fish are, relative to the first: on it,
\* on both sides of it, beside it
DegenerateOffsets ==
    { << <<0, 0, 0>>, <<0, 0, 0>> >>,
      << <<0, 0, 0>>, <<1000, 0, 0>> >>,
      << <<1000, 0, 0>>, <<-1000, 0, 0>> >>,
      << <<2000, 0, 1000>>, <<0, 3000, 0>> >> }

\* the headings a fish has after no turn, or a quarter turn to either side
DegenerateHeadings == { <<0, 0, ONE>>, <<ONE, 0, 0>>, <<-ONE, 0, 0>> }

\* fish f once it has completed a turn to heading: the turn-complete branch
\* has copied the target to the current heading and updatePhysics has
\* projected the velocity from it
Facing(f, heading) ==
    WithVelocity([f EXCEPT !.movement.direction.currentHeading = heading,
                           !.movement.direction.targetHeading = heading])

\* the lists of three fish of the same size
DegenerateLists ==
    { << NewFish(<<0, 0, 0>>, DefaultBehavior, 0, 0, 0, 0),
         Facing(NewFish(o[1], DefaultBehavior, 0, 0, 3000, 1000), h2),
         Facing(NewFish(o[2], DefaultBehavior, 0, 0, 5000, 2000), h3) >> :
      o \in DegenerateOffsets, h2 \in DegenerateHeadings, h3 \in DegenerateHeadings }

DegenerateInit ==
    /\ behavior = DefaultBehavior
    /\ fishCount = 3
    /\ fish \in DegenerateLists
    /\ isPaused = FALSE
    /\ now = 0
    /\ deltaTime = 0
    /\ frames = 0
    /\ partitionSize = PartitionSize
    /\ spatialGrid = EmptyGrid
    /\ lastTime = 0

DegenerateNext == Update

DegenerateSpec == DegenerateInit /\ [][DegenerateNext]_vars

\* the neighbors nb of fish i that are not exactly where fish i is
Apart(fs, i, nb) ==
    SelectSeq(nb, LAMBDA j : fs[j].physics.position # fs[i].physics.position)

\* the three degenerate cases for fish i of the list fs with neighbors nb
DegenerateCasesZero(fs, i, nb, b) ==
    /\ VDivN(VSum([k \in 1..Len(nb) |-> fs[nb[k]].physics.position]), Len(nb))
           = fs[i].physics.position
         => CalculateCohesion(fs, i, nb) = ZeroVec
    /\ CalculateSeparation(fs, i, nb, b) = CalculateSeparation(fs, i, Apart(fs, i, nb), b)
    /\ (\A k \in 1..Len(nb) : Distance(fs[i].physics.position,
                                       fs[nb[k]].physics.position) = 0)
         => CalculateSeparation(fs, i, nb, b) = ZeroVec
    /\ VSum([k \in 1..Len(nb) |-> fs[nb[k]].physics.velocity]) = ZeroVec
         => CalculateAlignment(fs, i, nb) = ZeroVec

\* every component of v is a number
IsVector(v) == v \in Int \X Int \X Int

\* the list fish k's flocking step reads, given the draws r of its update
FlockingView(k, r) ==
    [ListAt(k) EXCEPT ![k] = Avoided(fish[k], deltaTime', now', behavior, r)]

DegenerateSafe ==
    Ticked =>
        \A k \in Active :
            /\ IsVector(fish'[k].movement.direction.currentHeading)
            /\ IsVector(fish'[k].movement.direction.targetHeading)
            /\ IsVector(fish'[k].physics.velocity)
            /\ IsVector(fish'[k].physics.position)
            /\ \A r \in FlockDraws :
                   LET nb == GetNearbyNeighbors(FlockingView(k, r), k, behavior)
                   IN  nb # <<>> =>
                           DegenerateCasesZero(FlockingView(k, r), k, nb, behavior)

\* C27: a neighbor exactly on the fish contributes the zero vector to the
\* separation, neighbors whose centroid is the fish's position give a zero
\* cohesion, neighbors whose velocities sum to zero give a zero alignment, and
\* the fish's headings, velocity and position after the tick are numbers.
DegenerateVectorsSafe == [][DegenerateSafe]_vars

\* the first fish has been updated with both neighbors exactly on it and
\* heading opposite ways: all three cases at once
DegenerateVectorsSafeWitness ==
    /\ frames = 1
    /\ \E fs \in DegenerateLists :
           /\ fs[2].physics.position = fs[1].physics.position
           /\ fs[3].physics.position = fs[1].physics.position
           /\ VAdd(fs[2].physics.velocity, fs[3].physics.velocity) = ZeroVec
           /\ fs[2].physics.velocity # ZeroVec
           /\ \E r \in FlockDraws :
                  fish[1] = FishUpdate(fs, 1, deltaTime, now, behavior,
                                       BoundsMin, BoundsMax, r)

-----------------------------------------------------------------------------
(* The flock with every operation that adds or deactivates a fish          *)

\* largest number of update() calls of this flock
MaxInertFrames == 2

\* getFish(): the active fish, in list order
GetFish == SelectSeq(fish, LAMBDA f : f.isActive)

RECURSIVE Sum(_)
Sum(s) == IF s = <<>> THEN 0 ELSE Head(s) + Sum(Tail(s))

\* getStats(): fishCount, activeFish and averageSpeed
GetStats ==
    LET activeFish == SelectSeq(fish, LAMBDA f : f.isActive)
        speeds     == [k \in 1..Len(activeFish) |->
                          activeFish[k].movement.speed.currentSpeed]
    IN  [ fishCount    |-> Len(fish),
          activeFish   |-> Len(activeFish),
          averageSpeed |-> IF Len(speeds) > 0 THEN RDiv(Sum(speeds), Len(speeds))
                           ELSE 0 ]

\* removeFish(id): the fish of that id, if there is one, is marked inactive;
\* the id of a fish is its index in the list, counted from 0
RemoveFish ==
    \E id \in 0..(MaxFish - 1) :
        /\ id + 1 <= Len(fish)
        /\ fish' = [fish EXCEPT ![id + 1].isActive = FALSE]
        /\ UNCHANGED <<behavior, fishCount, isPaused, now, deltaTime, frames,
                       partitionSize, spatialGrid, lastTime>>

\* addFish(position): a new fish is pushed
AddFish ==
    /\ Len(fish) < MaxFish
    /\ fish' \in Grown(fish, Len(fish) + 1, behavior, now, GrowSpawnDraws)
    /\ UNCHANGED <<behavior, fishCount, isPaused, now, deltaTime, frames,
                   partitionSize, spatialGrid, lastTime>>

InertInit ==
    /\ behavior = DefaultBehavior
    /\ fishCount \in 1..MaxFish
    /\ fish \in Grown(<<>>, fishCount, behavior, 0, GrowSpawnDraws)
    /\ isPaused = FALSE
    /\ now = 0
    /\ deltaTime = 0
    /\ frames = 0
    /\ partitionSize = PartitionSize
    /\ spatialGrid = EmptyGrid
    /\ lastTime = 0

InertUpdate == Frame({16}, FlockDraws, MaxInertFrames, MaxTime)

InertNext == InertUpdate \/ UpdateConfig \/ RemoveFish \/ AddFish \/ SetPaused

InertSpec == InertInit /\ [][InertNext]_vars

\* the indices of the inactive fish
Inactive == {k \in 1..Len(fish) : ~fish[k].isActive}

\* what getFish() and getStats() report leaves the inactive fish out
InactiveUnseen ==
    /\ \A k \in 1..Len(GetFish) : GetFish[k].isActive
    /\ Len(GetFish) = Cardinality(Active)
    /\ GetStats.activeFish = Cardinality(Active)
    /\ Active = {} => GetStats.averageSpeed = 0
    /\ \A k \in Active :
           (\A j \in Active : fish[j].movement.speed.currentSpeed
                                  = fish[k].movement.speed.currentSpeed)
               => GetStats.averageSpeed = fish[k].movement.speed.currentSpeed

\* a step keeps every inactive fish in its place and inactive, and a tick
\* leaves it exactly as it was
InactiveKept ==
    \A k \in Inactive :
        /\ k <= Len(fish')
        /\ ~fish'[k].isActive
        /\ frames' # frames => fish'[k] = fish[k]

LevelWhenIdle ==
    \A k \in 1..Len(fish) :
        /\ ~fish[k].movement.direction.isChangingDirection
               => fish[k].movement.roll.targetAngle = 0
        /\ Abs(fish[k].movement.roll.targetAngle) <= fish[k].movement.roll.maxRollAngle

\* a fish is idle and level again on the heading of a turn its timer started
LevelWhenIdleWitness ==
    \E k \in Active :
        /\ ~fish[k].movement.direction.isChangingDirection
        /\ fish[k].movement.direction.lastDirectionChange > 0
        /\ fish[k].movement.direction.currentHeading # <<0, 0, ONE>>
        /\ fish[k].movement.direction.currentHeading
               = fish[k].movement.direction.targetHeading
        /\ fish[k].movement.roll.targetAngle = 0

-----------------------------------------------------------------------------
(* One fish in open water, ticked by the animation loop for as long as the  *)
(* run lasts: the turns its direction timer starts are followed to their    *)
(* end.                                                                      *)

\* the number of frames and the latest time of the run
MaxTurnFrames == 70

MaxTurnTime == 6400

\* the number of ticks within which a turn is followed to its end
TurnTicks == 40

\* the fish in the middle of the tank, and the fish 0.1 from the far wall
CompleteSpawnDraws == {d \in SwimSpawnDraws : d.rx = 500 /\ d.ry = 500}

\* a quarter turn to the left, or a turn of 36.9 degrees to the right
CompleteDraws == Draws({0}, {<<990, 999>>}, {<<0, -1000>>, <<800, 600>>})

CompleteInit ==
    /\ behavior \in SwimBehaviors
    /\ fishCount = 1
    /\ fish \in Grown(<<>>, fishCount, behavior, 0, CompleteSpawnDraws)
    /\ isPaused = FALSE
    /\ now = 0
    /\ deltaTime = 0
    /\ frames = 0
    /\ partitionSize = PartitionSize
    /\ spatialGrid = EmptyGrid
    /\ lastTime = 0

CompleteSwim == Frame(SwimElapsed, CompleteDraws, MaxTurnFrames, MaxTurnTime)

CompleteNext == CompleteSwim

\* requestAnimationFrame calls the loop again after every frame
\* the frame counter moves on: the step every frame of the loop takes
AnimationFrame == frames < MaxTurnFrames /\ frames' = frames + 1

CompleteSpec == CompleteInit /\ [][CompleteNext]_vars /\ WF_frames(AnimationFrame)

\* the angle left of the turn of f
TurnAngle(f) ==
    AngleTo(f.movement.direction.currentHeading, f.movement.direction.targetHeading)

\* f is at least avoidanceDistance away from every face of the tank
FarFromFaces(f) ==
    \A axis \in 1..3 :
        /\ f.physics.position[axis] - BoundsMin[axis] >= f.size.bodyLength * 5
        /\ BoundsMax[axis] - f.physics.position[axis] >= f.size.bodyLength * 5

Turning == fish[1].movement.direction.isChangingDirection

TurnDone ==
    /\ ~fish[1].movement.direction.isChangingDirection
    /\ fish[1].movement.direction.currentHeading
           = fish[1].movement.direction.targetHeading

\* a tick of a turning fish in open water lessens the angle left
TurnLessens ==
    Ticked /\ Turning /\ FarFromFaces(fish[1])
        => TurnAngle(fish'[1]) < TurnAngle(fish[1])

\* the same, with the tick that ends the turn told apart
TurnProgress ==
    Ticked /\ Turning /\ FarFromFaces(fish[1])
        => /\ fish'[1].movement.direction.targetHeading
                  = fish[1].movement.direction.targetHeading
           /\ IF TurnAngle(fish[1]) > 50
              THEN /\ Turning'
                   /\ TurnAngle(fish'[1]) < TurnAngle(fish[1])
              ELSE TurnDone'

\* a turn with TurnTicks frames of the run left ends, or the fish comes near a
\* face
TurnEnds ==
    (Turning /\ frames + TurnTicks <= MaxTurnFrames)
        ~> (TurnDone \/ ~FarFromFaces(fish[1]))

\* C30 as stated: while a fish is turning in open water with no neighbor,
\* every tick strictly lessens the angle to targetHeading, and the fish
\* eventually stops turning with currentHeading = targetHeading.
TurnsCompleteStrict == [][TurnLessens]_vars /\ TurnEnds

\* C30: while a fish is turning in open water with no neighbor, targetHeading
\* stays as it is, every tick that finds the angle to it above 0.05 rad
\* strictly lessens that angle, the tick that finds it at or below 0.05 rad
\* ends the turn with currentHeading = targetHeading, and a turning fish
\* eventually reaches that end.
TurnsComplete == [][TurnProgress]_vars /\ TurnEnds

\* the fish has ended a quarter turn in open water
TurnsCompleteWitness ==
    /\ TurnDone
    /\ FarFromFaces(fish[1])
    /\ fish[1].movement.direction.lastDirectionChange > 0
    /\ fish[1].movement.direction.currentHeading = <<-ONE, 0, 0>>

====
